---- MODULE Spec2Model ----
(***************************************************************************)
(* A model of the public handle of librws (src/src/rws_socketpub.c): the   *)
(* configuration setters, rws_socket_connect, the send calls,              *)
(* rws_socket_disconnect_and_release and rws_socket_delete, run by one     *)
(* controlling caller thread and two sender threads against the worker.   *)
(* The worker loop and the private helpers (rws_socket_send_*_priv, the    *)
(* rws_*_clean release helpers) follow the design specification, sections *)
(* 4.G and 5.                                                             *)
(***************************************************************************)
EXTENDS Integers, Sequences, FiniteSets, TLC

\* ------------------------------------------------------------- bounds
\* calls (send_text, send_binary, is_connected) the sender threads make in all
MaxCalls == 2
\* frames one send_* call fragments its payload into, at most
MaxFrags == 2

\* ---------------------------------------------------------- constants
Senders == {"s1", "s2"}
Ports == {-1, 0, 80}
\* the owned fields rws_socket_delete releases
Fields == {"received", "send_frames", "recvd_frames", "sec_ws_accept",
           "scheme", "host", "path", "error"}
Commands == {"NONE", "CONNECT_TO_HOST", "SEND_HANDSHAKE",
             "WAIT_HANDSHAKE_RESPONSE", "IDLE", "DISCONNECT",
             "INFORM_DISCONNECTED", "END"}
NoError == [code |-> "none", descr |-> "none"]
\* the frame the peer left in recvd_frames (a fragment awaiting its continuation)
RxFrame == [t |-> 0, i |-> 1]

VARIABLES
  mem,            \* each owned field's pointer: "null", "live", or "dangling" (freed, not nulled)
  port,           \* socket->port
  on_disconnected,\* socket->on_disconnected is set
  err,            \* the error object socket->error points to (code, description)
  received_len,   \* socket->received_len
  command,        \* socket->command
  is_connected,   \* socket->is_connected
  work_thread,    \* socket->work_thread is non-null
  work_mutex,     \* holder of socket->work_mutex: "free", "caller" or "worker"
  send_mutex,     \* holder of socket->send_mutex: "free" or a sender
  send_frames,    \* the frames of the list socket->send_frames, head first
  recvd_frames,   \* the frames of the list socket->recvd_frames
  deleted,        \* frames that were freed
  double_free,    \* some release statement freed memory that was already freed
  leaked,         \* some store overwrote a pointer to an object that was still allocated
  freed,          \* how many times each thread freed the handle (rws_free(s))
  pc_c,           \* position of the controlling caller thread
  connect_ret,    \* what the last rws_socket_connect returned ("none" before the first)
  pc_s,           \* position of each sender thread: "idle", "send", "is_connected", "fault"
  todo,           \* frames the sender's current call still has to push
  ticket,         \* the sender's current call: its rank among the send_mutex acquisitions
  nlocks,         \* send_mutex acquisitions by the sender threads' calls so far
  pushed,         \* frames the sender's current call has pushed
  raced,          \* the list was freed under the sender while it was inside send_*_priv
  pc_w,           \* position of the worker thread: "none", "run", "tick", "exiting", "exited"
  transmitted,    \* frames the worker wrote to the transport
  close_code,     \* status of the CLOSE frame to send (0: none supplied)
  close_sent,     \* status of the CLOSE frame the worker sent (0: none sent)
  n_connected,    \* dispatches of on_connected
  n_disconnected  \* dispatches of on_disconnected

vars == <<mem, port, on_disconnected, err, received_len, command, is_connected,
          work_thread, work_mutex, send_mutex, send_frames, recvd_frames,
          deleted, double_free, leaked, freed, pc_c, connect_ret, pc_s, todo, ticket,
          nlocks, pushed, raced, pc_w, transmitted, close_code,
          close_sent, n_connected, n_disconnected>>

\* groups for UNCHANGED
config == <<port, on_disconnected>>
resources == <<mem, send_frames, recvd_frames, deleted, double_free, leaked>>
senderv == <<pc_s, todo, ticket, nlocks, pushed, raced>>
workerv == <<pc_w, transmitted, close_code, close_sent, n_connected,
             n_disconnected>>

HandleFreed == freed["caller"] + freed["worker"] > 0
Returned == {"ret_disconnect", "ret_end", "ret_inline", "ret_none"}

\* ------------------------------------------------- owned memory helpers
\* The resource state the release helpers work on.
Res == [mem |-> mem, sf |-> send_frames, rf |-> recvd_frames,
        deleted |-> deleted, df |-> double_free, lk |-> leaked]

SetRes(R) ==
  /\ mem' = R.mem
  /\ send_frames' = R.sf
  /\ recvd_frames' = R.rf
  /\ deleted' = R.deleted
  /\ double_free' = R.df
  /\ leaked' = R.lk

\* free(p) of a non-null p, the pointer left as it is
rws_free(R, f) ==
  IF R.mem[f] = "null" THEN R
  ELSE [R EXCEPT !.mem[f] = "dangling", !.df = R.df \/ R.mem[f] = "dangling"]

\* rws_free_clean / rws_string_delete_clean / rws_error_delete_clean:
\* free *p if it is non-null, then *p = NULL
rws_free_clean(R, f) == [rws_free(R, f) EXCEPT !.mem[f] = "null"]

\* rws_socket_delete_all_frames_in_list(list): delete every frame of the list
\* (a null list is left alone)
rws_socket_delete_all_frames_in_list(R, f) ==
  LET frames == IF f = "send_frames" THEN R.sf ELSE R.rf
      fs == {frames[k] : k \in 1..Len(frames)}
  IN IF R.mem[f] = "null" THEN R
     ELSE [R EXCEPT !.deleted = R.deleted \cup fs,
                    !.df = R.df \/ R.mem[f] = "dangling" \/ fs \cap R.deleted # {}]

\* rws_list_delete_clean(&list): free the list's nodes, then list = NULL
rws_list_delete_clean(R, f) ==
  LET R1 == rws_free_clean(R, f)
  IN IF f = "send_frames" THEN [R1 EXCEPT !.sf = <<>>] ELSE [R1 EXCEPT !.rf = <<>>]

\* a fresh allocation stored in field f
Alloc(R, f) == [R EXCEPT !.mem[f] = "live"]

\* field = new object: the object the field pointed to, if it is still
\* allocated, has no owner left
Store(R, f) == [Alloc(R, f) EXCEPT !.lk = R.lk \/ R.mem[f] = "live"]

\* ------------------------------------------------------------ Init
\* The handle as rws_socket_create leaves it: zeroed, port -1, command NONE,
\* both mutexes created and free.
Init ==
  /\ mem = [f \in Fields |-> "null"]
  /\ port = -1
  /\ on_disconnected = FALSE
  /\ err = NoError
  /\ received_len = 0
  /\ command = "NONE"
  /\ is_connected = FALSE
  /\ work_thread = FALSE
  /\ work_mutex = "free"
  /\ send_mutex = "free"
  /\ send_frames = <<>>
  /\ recvd_frames = <<>>
  /\ deleted = {}
  /\ double_free = FALSE
  /\ leaked = FALSE
  /\ freed = [t \in {"caller", "worker"} |-> 0]
  /\ pc_c = "idle"
  /\ connect_ret = "none"
  /\ pc_s = [s \in Senders |-> "idle"]
  /\ todo = [s \in Senders |-> 0]
  /\ ticket = [s \in Senders |-> 0]
  /\ nlocks = 0
  /\ raced = [s \in Senders |-> FALSE]
  /\ pushed = [s \in Senders |-> 0]
  /\ pc_w = "none"
  /\ transmitted = {}
  /\ close_code = 0
  /\ close_sent = 0
  /\ n_connected = 0
  /\ n_disconnected = 0

\* --------------------------------------------------------- setters
\* The caller configures the handle before connect and does not touch the
\* configuration once a worker was started (spec.md section 5).
Configuring == pc_c = "idle" /\ ~HandleFreed /\ command = "NONE" /\ ~work_thread

\* rws_string_delete(old); field = rws_string_copy(new)   (a null new copies to null)
SetString(R, f, given) ==
  [rws_free(R, f) EXCEPT !.mem[f] = IF given THEN "live" ELSE "null"]

rws_socket_set_url ==
  /\ Configuring
  /\ \E scheme \in BOOLEAN, host \in BOOLEAN, p \in Ports, path \in BOOLEAN :
       /\ SetRes(SetString(SetString(SetString(Res, "scheme", scheme),
                                     "host", host), "path", path))
       /\ port' = p
  /\ UNCHANGED <<on_disconnected, err, received_len, command, is_connected,
                 work_thread, work_mutex, send_mutex, freed, pc_c, connect_ret,
                 senderv, workerv>>

rws_socket_set_scheme ==
  /\ Configuring
  /\ \E scheme \in BOOLEAN : SetRes(SetString(Res, "scheme", scheme))
  /\ UNCHANGED <<config, err, received_len, command, is_connected,
                 work_thread, work_mutex, send_mutex, freed, pc_c, connect_ret,
                 senderv, workerv>>

rws_socket_set_host ==
  /\ Configuring
  /\ \E host \in BOOLEAN : SetRes(SetString(Res, "host", host))
  /\ UNCHANGED <<config, err, received_len, command, is_connected,
                 work_thread, work_mutex, send_mutex, freed, pc_c, connect_ret,
                 senderv, workerv>>

rws_socket_set_path ==
  /\ Configuring
  /\ \E path \in BOOLEAN : SetRes(SetString(Res, "path", path))
  /\ UNCHANGED <<config, err, received_len, command, is_connected,
                 work_thread, work_mutex, send_mutex, freed, pc_c, connect_ret,
                 senderv, workerv>>

rws_socket_set_port ==
  /\ Configuring
  /\ \E p \in Ports : port' = p
  /\ UNCHANGED <<on_disconnected, resources, err, received_len, command,
                 is_connected, work_thread, work_mutex, send_mutex, freed, pc_c,
                 connect_ret, senderv, workerv>>

rws_socket_set_on_disconnected ==
  /\ Configuring
  /\ \E callback \in BOOLEAN : on_disconnected' = callback
  /\ UNCHANGED <<port, resources, err, received_len, command,
                 is_connected, work_thread, work_mutex, send_mutex, freed, pc_c,
                 connect_ret, senderv, workerv>>

\* --------------------------------------------------------- connect
\* The checks of lines 43-57, each overwriting params_error_msg
\* ("none" stands for the NULL message).
params_error_msg_no_path_check(p, scheme, host, path, ondisc) ==
  LET m1 == IF p <= 0 THEN "No URL port provided" ELSE "none"
      m2 == IF scheme = "null" THEN "No URL scheme provided" ELSE m1
      m3 == IF host = "null" THEN "No URL host provided" ELSE m2
  IN IF ~ondisc THEN "No on_disconnected callback provided" ELSE m3

params_error_msg(p, scheme, host, path, ondisc) ==
  LET m1 == IF p <= 0 THEN "No URL port provided" ELSE "none"
      m2 == IF scheme = "null" THEN "No URL scheme provided" ELSE m1
      m3 == IF host = "null" THEN "No URL host provided" ELSE m2
      m4 == IF path = "null" THEN "No URL path provided" ELSE m3
  IN IF ~ondisc THEN "No on_disconnected callback provided" ELSE m4

\* rws_error_new_code_descr(code, description)
rws_error_new_code_descr(code, descr) == [code |-> code, descr |-> descr]

\* rws_socket_create_start_work_thread: publishes NONE -> CONNECT_TO_HOST and
\* spawns the worker; thread creation may fail; a handle whose command has
\* left NONE gets no second worker.
rws_socket_create_start_work_thread ==
  IF command = "NONE" /\ ~work_thread
  THEN \/ /\ work_thread' = TRUE
          /\ command' = "CONNECT_TO_HOST"
          /\ pc_w' = "run"
          /\ connect_ret' = "true"
       \/ /\ connect_ret' = "false"
          /\ UNCHANGED <<work_thread, command, pc_w>>
  ELSE /\ connect_ret' = "false"
       /\ UNCHANGED <<work_thread, command, pc_w>>

\* rws_socket_connect without the rws_error_delete_clean of line 41
rws_socket_connect_keep_error ==
  /\ pc_c = "idle"
  /\ ~HandleFreed
  /\ LET msg == params_error_msg(port, mem["scheme"], mem["host"], mem["path"],
                                 on_disconnected)
     IN /\ received_len' = 0
        /\ IF msg # "none"
           THEN /\ SetRes(Store(Res, "error"))
                /\ err' = rws_error_new_code_descr("missed_parameter", msg)
                /\ connect_ret' = "false"
                /\ UNCHANGED <<work_thread, command, pc_w>>
           ELSE /\ UNCHANGED <<resources, err>>
                /\ rws_socket_create_start_work_thread
  /\ UNCHANGED <<config, is_connected, work_mutex, send_mutex, freed, pc_c,
                 senderv, transmitted, close_code, close_sent, n_connected,
                 n_disconnected>>

rws_socket_connect ==
  /\ pc_c = "idle"
  /\ ~HandleFreed
  /\ LET R1 == rws_free_clean(Res, "error")                                 \* 41
         msg == params_error_msg(port, mem["scheme"], mem["host"], mem["path"],
                                 on_disconnected)                           \* 43-57
     IN /\ received_len' = 0                                                \* 58
        /\ IF msg # "none"
           THEN /\ SetRes(Store(R1, "error"))                               \* 60
                /\ err' = rws_error_new_code_descr("missed_parameter", msg)
                /\ connect_ret' = "false"                                   \* 61
                /\ UNCHANGED <<work_thread, command, pc_w>>
           ELSE /\ SetRes(R1)
                /\ err' = NoError
                /\ rws_socket_create_start_work_thread                      \* 63
  /\ UNCHANGED <<config, is_connected, work_mutex, send_mutex, freed, pc_c,
                 senderv, transmitted, close_code, close_sent, n_connected,
                 n_disconnected>>

\* ---------------------------------------------------------- delete
\* The release statements of rws_socket_delete, lines 153-176, in order.
rws_socket_delete_res_no_clean(R) ==
  LET a == rws_free_clean(R, "sec_ws_accept")
      b == rws_free(a, "received")
      c == rws_socket_delete_all_frames_in_list(b, "send_frames")
      d == rws_list_delete_clean(c, "send_frames")
      e == rws_socket_delete_all_frames_in_list(d, "recvd_frames")
      f == rws_list_delete_clean(e, "recvd_frames")
      g == rws_free_clean(f, "scheme")
      h == rws_free_clean(g, "host")
      i == rws_free_clean(h, "path")
      j == rws_free_clean(i, "sec_ws_accept")
      k == rws_free_clean(j, "error")
      l == rws_free_clean(k, "received")
      m == rws_socket_delete_all_frames_in_list(l, "send_frames")
      n == rws_list_delete_clean(m, "send_frames")
      o == rws_socket_delete_all_frames_in_list(n, "recvd_frames")
  IN rws_list_delete_clean(o, "recvd_frames")

rws_socket_delete_res(R) ==
  LET a == rws_free_clean(R, "sec_ws_accept")                         \* 153
      b == rws_free_clean(a, "received")                              \* 155
      c == rws_socket_delete_all_frames_in_list(b, "send_frames")     \* 159
      d == rws_list_delete_clean(c, "send_frames")                    \* 160
      e == rws_socket_delete_all_frames_in_list(d, "recvd_frames")    \* 161
      f == rws_list_delete_clean(e, "recvd_frames")                   \* 162
      g == rws_free_clean(f, "scheme")                                \* 164
      h == rws_free_clean(g, "host")                                  \* 165
      i == rws_free_clean(h, "path")                                  \* 166
      j == rws_free_clean(i, "sec_ws_accept")                         \* 168
      k == rws_free_clean(j, "error")                                 \* 170
      l == rws_free_clean(k, "received")                              \* 172
      m == rws_socket_delete_all_frames_in_list(l, "send_frames")     \* 173
      n == rws_list_delete_clean(m, "send_frames")                    \* 174
      o == rws_socket_delete_all_frames_in_list(n, "recvd_frames")    \* 175
  IN rws_list_delete_clean(o, "recvd_frames")                         \* 176

\* rws_socket_delete(s) run by thread t: close the transport, release every
\* owned field, destroy both mutexes, free the handle.
rws_socket_delete(t) ==
  /\ is_connected' = FALSE
  /\ SetRes(rws_socket_delete_res(Res))
  /\ err' = NoError
  /\ received_len' = 0
  /\ work_mutex' = "destroyed"
  /\ send_mutex' = "destroyed"
  /\ freed' = [freed EXCEPT ![t] = @ + 1]

\* ------------------------------------------- disconnect_and_release
InSend(s) == pc_s[s] = "send"

\* line 71: rws_mutex_lock(socket->work_mutex)
rws_socket_disconnect_and_release_lock ==
  /\ pc_c = "idle"
  /\ ~HandleFreed
  /\ work_mutex = "free"
  /\ work_mutex' = "caller"
  /\ pc_c' = "dar_locked"
  /\ connect_ret' = "none"
  /\ UNCHANGED <<config, resources, err, received_len, command, is_connected,
                 work_thread, send_mutex, freed, senderv, workerv>>

\* lines 73-74 without the rws_list_delete_clean of line 74
rws_socket_disconnect_and_release_clear_frames_only ==
  /\ pc_c = "dar_locked"
  /\ SetRes(rws_socket_delete_all_frames_in_list(Res, "send_frames"))
  /\ raced' = [s \in Senders |-> raced[s] \/ (InSend(s) /\ pushed[s] < todo[s])]
  /\ pc_c' = "dar_cleared"
  /\ UNCHANGED <<config, err, received_len, command, is_connected, work_thread,
                 work_mutex, send_mutex, freed, connect_ret, pc_s, todo, ticket,
                 nlocks, pushed, workerv>>

\* lines 73-74 run with send_mutex taken as well
rws_socket_disconnect_and_release_clear_under_send_mutex ==
  /\ pc_c = "dar_locked"
  /\ send_mutex = "free"
  /\ send_mutex' = "caller"
  /\ SetRes(rws_list_delete_clean(
              rws_socket_delete_all_frames_in_list(Res, "send_frames"),
              "send_frames"))
  /\ pc_c' = "dar_cleared"
  /\ UNCHANGED <<config, err, received_len, command, is_connected, work_thread,
                 work_mutex, freed, connect_ret, senderv, workerv>>

\* lines 73-74: delete the queued frames and the list. send_mutex is not
\* taken: a sender inside its enqueue step has the list freed under it.
rws_socket_disconnect_and_release_clear ==
  /\ pc_c = "dar_locked"
  /\ SetRes(rws_list_delete_clean(
              rws_socket_delete_all_frames_in_list(Res, "send_frames"),
              "send_frames"))
  /\ raced' = [s \in Senders |-> raced[s] \/ (InSend(s) /\ pushed[s] < todo[s])]
  /\ pc_c' = "dar_cleared"
  /\ UNCHANGED <<config, err, received_len, command, is_connected, work_thread,
                 work_mutex, send_mutex, freed, connect_ret, pc_s, todo, ticket,
                 nlocks, pushed, workerv>>

\* lines 76-86 with the first two branches' commands swapped
rws_socket_disconnect_and_release_branch_swapped ==
  /\ pc_c = "dar_cleared"
  /\ IF is_connected
     THEN /\ command' = "END"
          /\ work_mutex' = "free"
          /\ pc_c' = "ret_disconnect"
          /\ UNCHANGED <<resources, err, received_len, is_connected, send_mutex, freed>>
     ELSE IF work_thread
     THEN /\ command' = "DISCONNECT"
          /\ work_mutex' = "free"
          /\ pc_c' = "ret_end"
          /\ UNCHANGED <<resources, err, received_len, is_connected, send_mutex, freed>>
     ELSE IF command # "END"
     THEN /\ rws_socket_delete("caller")
          /\ pc_c' = "ret_inline"
          /\ UNCHANGED command
     ELSE /\ pc_c' = "ret_none"
          /\ UNCHANGED <<resources, err, received_len, command, is_connected,
                         work_mutex, send_mutex, freed>>
  /\ UNCHANGED <<config, work_thread, connect_ret, senderv, workerv>>

\* lines 76-86: the teardown path
rws_socket_disconnect_and_release_branch ==
  /\ pc_c = "dar_cleared"
  /\ IF is_connected
     THEN /\ command' = "DISCONNECT"
          /\ work_mutex' = "free"
          /\ pc_c' = "ret_disconnect"
          /\ UNCHANGED <<resources, err, received_len, is_connected, send_mutex, freed>>
     ELSE IF work_thread
     THEN /\ command' = "END"
          /\ work_mutex' = "free"
          /\ pc_c' = "ret_end"
          /\ UNCHANGED <<resources, err, received_len, is_connected, send_mutex, freed>>
     ELSE IF command # "END"
     THEN /\ rws_socket_delete("caller")
          /\ pc_c' = "ret_inline"
          /\ UNCHANGED command
     ELSE /\ pc_c' = "ret_none"
          /\ UNCHANGED <<resources, err, received_len, command, is_connected,
                         work_mutex, send_mutex, freed>>
  /\ UNCHANGED <<config, work_thread, connect_ret, senderv, workerv>>

\* ------------------------------------------------------------ send
\* The sender threads are handed the handle once connect succeeded, and may
\* start a call (send_* or is_connected) while the handle is valid: not freed, and
\* disconnect_and_release has not returned.
MayCall(s) ==
  /\ pc_s[s] = "idle"
  /\ pc_w # "none"
  /\ nlocks < MaxCalls
  /\ ~HandleFreed
  /\ pc_c \notin Returned

\* rws_mutex_lock(socket->send_mutex): blocks while another thread holds it
rws_mutex_lock_send_unguarded(s) == send_mutex' = s

rws_mutex_lock_send(s) ==
  /\ send_mutex = "free"
  /\ send_mutex' = s

\* The call enters with its payload, which fragments into n frames
\* (n = 0: the payload is rejected by the input validation).
EnterSend(s) ==
  /\ MayCall(s)
  /\ rws_mutex_lock_send(s)
  /\ \E n \in 0..MaxFrags : todo' = [todo EXCEPT ![s] = n]
  /\ pc_s' = [pc_s EXCEPT ![s] = "send"]
  /\ pushed' = [pushed EXCEPT ![s] = 0]
  /\ nlocks' = nlocks + 1
  /\ ticket' = [ticket EXCEPT ![s] = nlocks + 1]
  /\ UNCHANGED <<config, resources, err, received_len, command, is_connected,
                 work_thread, work_mutex, freed, pc_c, connect_ret, raced, workerv>>

\* lines 89-92
rws_socket_send_text(s) == EnterSend(s)

\* lines 99-104
rws_socket_send_binary(s) == EnterSend(s)

\* rws_socket_send_text_priv / rws_socket_send_bin_priv: push the next frame
\* of the payload onto send_frames (the list is created when it is null).
\* After the list was freed under the call the push is a write to freed
\* memory: the frame lands in the new list or is lost.
rws_socket_send_priv(s) ==
  /\ InSend(s)
  /\ ~HandleFreed
  /\ pushed[s] < todo[s]
  /\ LET frame == [t |-> ticket[s], i |-> pushed[s] + 1]
         R1 == [Alloc(Res, "send_frames") EXCEPT !.sf = Append(Res.sf, frame)]
     IN \/ SetRes(R1)
        \/ /\ raced[s]
           /\ UNCHANGED resources
  /\ pushed' = [pushed EXCEPT ![s] = @ + 1]
  /\ raced' = [raced EXCEPT ![s] = FALSE]
  /\ UNCHANGED <<config, err, received_len, command, is_connected, work_thread,
                 work_mutex, send_mutex, freed, pc_c, connect_ret, pc_s, todo,
                 ticket, nlocks, workerv>>

\* lines 94 / 106: rws_mutex_unlock(socket->send_mutex), return r
rws_socket_send_return(s) ==
  /\ InSend(s)
  /\ ~HandleFreed
  /\ pushed[s] = todo[s]
  /\ send_mutex' = IF send_mutex = s THEN "free" ELSE send_mutex
  /\ pc_s' = [pc_s EXCEPT ![s] = "idle"]
  /\ raced' = [raced EXCEPT ![s] = FALSE]
  /\ todo' = [todo EXCEPT ![s] = 0]
  /\ pushed' = [pushed EXCEPT ![s] = 0]
  /\ ticket' = [ticket EXCEPT ![s] = 0]
  /\ UNCHANGED <<config, resources, err, received_len, command, is_connected,
                 work_thread, work_mutex, freed, pc_c, connect_ret,
                 nlocks, workerv>>

\* ---------------------------------------------------- is_connected
\* lines 313-316: rws_mutex_lock(socket->send_mutex), from one of the
\* application's other threads
rws_socket_is_connected_lock(s) ==
  /\ MayCall(s)
  /\ rws_mutex_lock_send(s)
  /\ pc_s' = [pc_s EXCEPT ![s] = "is_connected"]
  /\ nlocks' = nlocks + 1
  /\ UNCHANGED <<config, resources, err, received_len, command, is_connected,
                 work_thread, work_mutex, freed, pc_c, connect_ret, todo, ticket,
                 pushed, raced, workerv>>

\* lines 317-320: r = socket->is_connected, rws_mutex_unlock(socket->send_mutex),
\* return r (the value goes to the application and is not kept in the handle)
rws_socket_is_connected_return(s) ==
  /\ pc_s[s] = "is_connected"
  /\ ~HandleFreed
  /\ send_mutex' = IF send_mutex = s THEN "free" ELSE send_mutex
  /\ pc_s' = [pc_s EXCEPT ![s] = "idle"]
  /\ UNCHANGED <<config, resources, err, received_len, command, is_connected,
                 work_thread, work_mutex, freed, pc_c, connect_ret, todo, ticket,
                 nlocks, pushed, raced, workerv>>

\* A call still running when the handle is freed touches freed memory.
send_use_after_free(s) ==
  /\ InSend(s) \/ pc_s[s] = "is_connected"
  /\ HandleFreed
  /\ pc_s' = [pc_s EXCEPT ![s] = "fault"]
  /\ UNCHANGED <<config, resources, err, received_len, command, is_connected,
                 work_thread, work_mutex, send_mutex, freed, pc_c, connect_ret,
                 todo, ticket, nlocks, pushed, raced, workerv>>

\* ---------------------------------------------------------- worker
\* One tick of the worker runs under work_mutex.
worker_lock ==
  /\ pc_w = "run"
  /\ work_mutex = "free"
  /\ work_mutex' = "worker"
  /\ pc_w' = "tick"
  /\ UNCHANGED <<config, resources, err, received_len, command, is_connected,
                 work_thread, send_mutex, freed, pc_c, connect_ret, senderv,
                 transmitted, close_code, close_sent, n_connected,
                 n_disconnected>>

Tick(cmd) == pc_w = "tick" /\ command = cmd
EndTick == work_mutex' = "free" /\ pc_w' = "run"

\* the worker stores an error in the error slot
SetError(R) == Store(rws_free_clean(R, "error"), "error")

\* CONNECT_TO_HOST: open the transport
worker_connect_to_host ==
  /\ Tick("CONNECT_TO_HOST")
  /\ \/ /\ command' = "SEND_HANDSHAKE"
        /\ UNCHANGED <<resources, err>>
     \/ /\ command' = "INFORM_DISCONNECTED"
        /\ SetRes(SetError(Res))
        /\ err' = rws_error_new_code_descr("connect_failed", "none")
  /\ EndTick
  /\ UNCHANGED <<config, received_len, is_connected, work_thread, send_mutex,
                 freed, pc_c, connect_ret, senderv, transmitted, close_code,
                 close_sent, n_connected, n_disconnected>>

\* SEND_HANDSHAKE: generate the expected Sec-WebSocket-Accept, write the upgrade
worker_send_handshake ==
  /\ Tick("SEND_HANDSHAKE")
  /\ \/ /\ command' = "WAIT_HANDSHAKE_RESPONSE"
        /\ SetRes(Alloc(rws_free_clean(Res, "sec_ws_accept"), "sec_ws_accept"))
        /\ UNCHANGED err
     \/ /\ command' = "INFORM_DISCONNECTED"
        /\ SetRes(SetError(Res))
        /\ err' = rws_error_new_code_descr("send_failed", "none")
  /\ EndTick
  /\ UNCHANGED <<config, received_len, is_connected, work_thread, send_mutex,
                 freed, pc_c, connect_ret, senderv, transmitted, close_code,
                 close_sent, n_connected, n_disconnected>>

\* WAIT_HANDSHAKE_RESPONSE: read the response into the receive buffer and
\* validate it
worker_wait_handshake_response ==
  /\ Tick("WAIT_HANDSHAKE_RESPONSE")
  /\ \/ /\ command' = "IDLE"
        /\ is_connected' = TRUE
        /\ n_connected' = n_connected + 1
        /\ SetRes(Alloc(rws_free_clean(Res, "received"), "received"))
        /\ received_len' = 0
        /\ UNCHANGED err
     \/ /\ command' = "INFORM_DISCONNECTED"
        /\ SetRes(SetError(Alloc(rws_free_clean(Res, "received"), "received")))
        /\ err' = rws_error_new_code_descr("bad_sec_accept", "none")
        /\ received_len' = 1
        /\ UNCHANGED <<is_connected, n_connected>>
  /\ EndTick
  /\ UNCHANGED <<config, work_thread, send_mutex, freed, pc_c, connect_ret,
                 senderv, transmitted, close_code, close_sent, n_disconnected>>

\* Step 3 of the IDLE tick: under send_mutex, take frames off the head of
\* send_frames and write them; a write that would block leaves the rest queued.
Drain(R, k) == [R EXCEPT !.sf = SubSeq(R.sf, k + 1, Len(R.sf))]
Written(R, k) == {R.sf[j] : j \in 1..k}

\* IDLE: read a chunk (it may leave a fragment in recvd_frames), then drain
worker_idle ==
  /\ Tick("IDLE")
  /\ send_mutex = "free"
  /\ \E fragment \in BOOLEAN, k \in 0..Len(send_frames) :
       LET R1 == IF fragment /\ recvd_frames = <<>> /\ RxFrame \notin deleted
                 THEN [Alloc(Res, "recvd_frames") EXCEPT !.rf = <<RxFrame>>]
                 ELSE Res
       IN /\ SetRes(Drain(R1, k))
          /\ transmitted' = transmitted \cup Written(R1, k)
          /\ received_len' = IF fragment THEN 1 ELSE received_len
  /\ EndTick
  /\ UNCHANGED <<config, err, command, is_connected, work_thread, send_mutex,
                 freed, pc_c, connect_ret, senderv, close_code, close_sent,
                 n_connected, n_disconnected>>

\* IDLE, the peer's CLOSE arrived: reply with the peer's status, -> DISCONNECT
worker_idle_peer_close ==
  /\ Tick("IDLE")
  /\ close_code' = 1001
  /\ command' = "DISCONNECT"
  /\ EndTick
  /\ UNCHANGED <<config, resources, err, received_len, is_connected, work_thread,
                 send_mutex, freed, pc_c, connect_ret, senderv, transmitted,
                 close_sent, n_connected, n_disconnected>>

\* IDLE, the read failed: store the error, -> DISCONNECT
worker_idle_error ==
  /\ Tick("IDLE")
  /\ SetRes(SetError(Res))
  /\ err' = rws_error_new_code_descr("recv_failed", "none")
  /\ command' = "DISCONNECT"
  /\ EndTick
  /\ UNCHANGED <<config, received_len, is_connected, work_thread, send_mutex,
                 freed, pc_c, connect_ret, senderv, transmitted, close_code,
                 close_sent, n_connected, n_disconnected>>

\* DISCONNECT: send the CLOSE frame (status 1000 if none was supplied), wait
\* for the peer's CLOSE or the timeout, close the transport
worker_disconnect ==
  /\ Tick("DISCONNECT")
  /\ close_sent' = IF close_code = 0 THEN 1000 ELSE close_code
  /\ is_connected' = FALSE
  /\ command' = "INFORM_DISCONNECTED"
  /\ EndTick
  /\ UNCHANGED <<config, resources, err, received_len, work_thread, send_mutex,
                 freed, pc_c, connect_ret, senderv, transmitted, close_code,
                 n_connected, n_disconnected>>

\* INFORM_DISCONNECTED: dispatch on_disconnected, -> END
worker_inform_disconnected ==
  /\ Tick("INFORM_DISCONNECTED")
  /\ n_disconnected' = n_disconnected + 1
  /\ command' = "END"
  /\ EndTick
  /\ UNCHANGED <<config, resources, err, received_len, is_connected, work_thread,
                 send_mutex, freed, pc_c, connect_ret, senderv, transmitted,
                 close_code, close_sent, n_connected>>

\* END: the worker leaves its loop; it frees the handle as its last action
\* if the caller has already released
worker_end ==
  /\ Tick("END")
  /\ work_thread' = FALSE
  /\ work_mutex' = "free"
  /\ pc_w' = IF pc_c \in Returned THEN "exiting" ELSE "exited"
  /\ UNCHANGED <<config, resources, err, received_len, command, is_connected,
                 send_mutex, freed, pc_c, connect_ret, senderv, transmitted,
                 close_code, close_sent, n_connected, n_disconnected>>

worker_free ==
  /\ pc_w = "exiting"
  /\ rws_socket_delete("worker")
  /\ pc_w' = "exited"
  /\ UNCHANGED <<config, command, work_thread, pc_c, connect_ret, senderv,
                 transmitted, close_code, close_sent, n_connected,
                 n_disconnected>>

\* ------------------------------------------------------------ Next
Caller ==
  \/ rws_socket_set_url
  \/ rws_socket_set_scheme
  \/ rws_socket_set_host
  \/ rws_socket_set_path
  \/ rws_socket_set_port
  \/ rws_socket_set_on_disconnected
  \/ rws_socket_connect
  \/ rws_socket_disconnect_and_release_lock
  \/ rws_socket_disconnect_and_release_clear
  \/ rws_socket_disconnect_and_release_branch

Sender ==
  \E s \in Senders :
    \/ rws_socket_send_text(s)
    \/ rws_socket_send_binary(s)
    \/ rws_socket_send_priv(s)
    \/ rws_socket_send_return(s)
    \/ rws_socket_is_connected_lock(s)
    \/ rws_socket_is_connected_return(s)
    \/ send_use_after_free(s)

Worker ==
  \/ worker_lock
  \/ worker_connect_to_host
  \/ worker_send_handshake
  \/ worker_wait_handshake_response
  \/ worker_idle
  \/ worker_idle_peer_close
  \/ worker_idle_error
  \/ worker_disconnect
  \/ worker_inform_disconnected
  \/ worker_end
  \/ worker_free

Next == Caller \/ Sender \/ Worker

Spec == Init /\ [][Next]_vars

\* ================================================================
\* Claims
\* ================================================================
InvalidParams ==
  \/ port <= 0
  \/ mem["scheme"] = "null"
  \/ mem["host"] = "null"
  \/ mem["path"] = "null"
  \/ ~on_disconnected

ClearStep == pc_c = "dar_locked" /\ pc_c' = "dar_cleared"
BranchStep == pc_c = "dar_cleared" /\ pc_c' \in Returned
FramesOf(q) == {q[k] : k \in 1..Len(q)}

\* C1: a connect call on a handle with port <= 0 or an unset scheme, host,
\* path or on_disconnected returns false, leaves an error with code
\* missed_parameter in the error slot and starts no worker (command and the
\* worker thread are as before: NONE and none); a connect call that returns
\* true found port > 0 and all four slots set.
C1_ConnectFailsFast ==
  [][rws_socket_connect =>
       /\ InvalidParams =>
            /\ connect_ret' = "false"
            /\ err'.code = "missed_parameter"
            /\ mem'["error"] = "live"
            /\ command' = command /\ command' = "NONE"
            /\ work_thread' = work_thread /\ ~work_thread'
            /\ pc_w' = pc_w /\ pc_w' = "none"
       /\ connect_ret' = "true" => ~InvalidParams]_vars

C1_Witness ==
  /\ connect_ret = "false"
  /\ err.code = "missed_parameter"
  /\ port > 0
  /\ mem["host"] = "null"
  /\ command = "NONE"
  /\ pc_w = "none"

\* C2: when several required parameters are missing, the error description
\* names the first missing one in the order port, scheme, host, path,
\* on_disconnected.
FirstMissingMsg ==
  IF port <= 0 THEN "No URL port provided"
  ELSE IF mem["scheme"] = "null" THEN "No URL scheme provided"
  ELSE IF mem["host"] = "null" THEN "No URL host provided"
  ELSE IF mem["path"] = "null" THEN "No URL path provided"
  ELSE "No on_disconnected callback provided"

C2_FirstMissingReported ==
  [][(rws_socket_connect /\ InvalidParams) => err'.descr = FirstMissingMsg]_vars

\* C3: on_disconnected is dispatched exactly once for a handle whose command
\* reached CONNECT_TO_HOST: never twice, and once by the time the worker has
\* left its loop.
C3_DisconnectedExactlyOnce ==
  /\ n_disconnected <= 1
  /\ pc_w \in {"exiting", "exited"} => n_disconnected = 1

\* C4: a handle passed to disconnect_and_release is freed exactly once: never
\* by both threads, by the caller only when no worker exists, and it is freed
\* once the call has returned and no worker is left to free it.
C4_FreedExactlyOnce ==
  /\ freed["caller"] + freed["worker"] <= 1
  /\ freed["caller"] = 1 => pc_w \in {"none", "exited"}
  /\ (pc_c \in Returned /\ pc_w \in {"none", "exited"}) => HandleFreed

C6_QueueEmptyAtReturn ==
  [][BranchStep => send_frames' = <<>>]_vars

\* C6 (amended): the clearing statements of disconnect_and_release delete
\* every frame that is queued at that moment and leave send_frames empty and
\* null, and no deleted frame is ever transmitted.
C6_QueuedFramesDiscarded ==
  /\ [][ClearStep =>
          /\ send_frames' = <<>>
          /\ mem'["send_frames"] = "null"
          /\ FramesOf(send_frames) \subseteq deleted']_vars
  /\ [][deleted' \cap transmitted' = {}]_vars

C6_Witness ==
  /\ pc_c = "dar_cleared"
  /\ \E f \in deleted : f.t > 0
  /\ transmitted # {}

\* C7: a send_* call holds send_mutex for its whole fragment-and-enqueue
\* step, and send_frames holds the callers' frames in the order the calls
\* acquired send_mutex, each call's frames contiguous and in fragment order.
C7_SendOrdering ==
  /\ \A s \in Senders : (InSend(s) /\ ~HandleFreed) => send_mutex = s
  /\ \A j, k \in 1..Len(send_frames) :
       j < k =>
         \/ send_frames[j].t < send_frames[k].t
         \/ /\ send_frames[j].t = send_frames[k].t
            /\ send_frames[j].i < send_frames[k].i

C7_Witness ==
  /\ Len(send_frames) >= 3
  /\ send_frames[1].t # send_frames[Len(send_frames)].t

\* C8: every mutation of send_frames is made by a thread that holds
\* send_mutex, so none happens while a send_* call is running in another
\* thread.
C8_SendFramesUnderSendMutex ==
  [][(pc_c' # pc_c /\ send_frames' # send_frames) =>
       /\ send_mutex = "caller"
       /\ \A s \in Senders : ~InSend(s)]_vars

\* C9: while the worker runs, a caller writes command only from NONE or IDLE,
\* only to DISCONNECT or END, and only holding work_mutex.
C9_CallerCommandWrites ==
  [][(BranchStep /\ work_thread /\ command' # command) =>
       /\ command \in {"NONE", "IDLE"}
       /\ command' \in {"DISCONNECT", "END"}
       /\ work_mutex = "caller"]_vars

\* C10: release is single-shot: no release statement frees memory that was
\* already freed, and once the handle is freed every owned field is null and
\* both frame lists are empty.
C10_SingleShotRelease ==
  /\ ~double_free
  /\ HandleFreed =>
       /\ \A f \in Fields : mem[f] = "null"
       /\ send_frames = <<>>
       /\ recvd_frames = <<>>
       /\ freed["caller"] + freed["worker"] = 1

C10_Witness ==
  /\ freed["worker"] = 1
  /\ RxFrame \in deleted
  /\ \E f \in deleted : f.t > 0

\* C11: a connect call starts a worker only from command NONE (publishing
\* CONNECT_TO_HOST), and a connect call on a handle whose worker is running
\* starts no second worker and leaves the worker's state alone: the error
\* slot, received_len and command are as before.
C11_ConnectLeavesWorkerState ==
  [][rws_socket_connect =>
       /\ pc_w' # pc_w => (command = "NONE" /\ command' = "CONNECT_TO_HOST")
       /\ work_thread =>
            /\ work_thread' = work_thread /\ pc_w' = pc_w
            /\ command' = command
            /\ err' = err /\ mem'["error"] = mem["error"]
            /\ received_len' = received_len]_vars

\* C12: a disconnect_and_release call that took work_mutex has released it
\* when it returns, on every branch, and the mutex is destroyed only while no
\* thread holds it (the caller's inline delete follows its unlock).
C12_WorkMutexReleased ==
  [][/\ BranchStep => work_mutex' # "caller"
     /\ (work_mutex' = "destroyed" /\ work_mutex # "destroyed") =>
          work_mutex # "worker"]_vars

\* C13: no caller-side thread holds send_mutex and work_mutex together:
\* a send_text, send_binary or is_connected call holds send_mutex only, a
\* disconnect_and_release call holds work_mutex only. The worker takes
\* work_mutex before send_mutex, so there is no deadlock on the two: whenever
\* the worker waits for a mutex, its holder is a caller-side thread in the
\* middle of a call that needs no further mutex to finish.
Mutexes == {"work_mutex", "send_mutex"}
Holder(m) == IF m = "work_mutex" THEN work_mutex ELSE send_mutex
HeldBy(t) == {m \in Mutexes : Holder(m) = t}

C13_NoLockCycle ==
  /\ \A t \in {"caller"} \cup Senders : Cardinality(HeldBy(t)) <= 1
  /\ \A s \in Senders : HeldBy(s) \subseteq {"send_mutex"}
  /\ HeldBy("caller") \subseteq {"work_mutex"}
  /\ (pc_w = "run" /\ work_mutex # "free") =>
       /\ work_mutex = "caller"
       /\ pc_c \in {"dar_locked", "dar_cleared"}
  /\ (Tick("IDLE") /\ send_mutex # "free") =>
       /\ send_mutex \in Senders
       /\ pc_s[send_mutex] \in {"send", "is_connected"}
       /\ ~HandleFreed

C13_Witness ==
  /\ Tick("IDLE")
  /\ work_mutex = "worker"
  /\ send_mutex \in Senders
  /\ pc_s[send_mutex] = "is_connected"
  /\ \E s \in Senders : pc_s[s] = "idle" /\ s # send_mutex

\* C14: a connect call that fails validation changes only the error slot and
\* received_len: the URL parts, the callback, command, is_connected, the
\* worker and both frame lists are as before. Every connect call discards the
\* previous error before it stores a new one, so no error object is lost
\* while still allocated or freed twice; and a connect call made once the
\* parameters are all set leaves the error slot empty, whatever error an
\* earlier failed call had left there.
C14_FailedConnectRecoverable ==
  [][rws_socket_connect =>
       /\ ~leaked' /\ ~double_free'
       /\ InvalidParams =>
            /\ UNCHANGED <<config, command, is_connected, work_thread, pc_w,
                           send_frames, recvd_frames, work_mutex, send_mutex>>
            /\ \A f \in Fields \ {"error"} : mem'[f] = mem[f]
            /\ mem'["error"] = "live"
            /\ err'.code = "missed_parameter"
       /\ ~InvalidParams =>
            /\ mem'["error"] = "null"
            /\ err' = NoError
            /\ (command = "NONE" /\ ~work_thread) =>
                 \/ connect_ret' = "true" /\ command' = "CONNECT_TO_HOST"
                 \/ connect_ret' = "false" /\ command' = "NONE"]_vars

\* a failed call on a handle that lacks only its on_disconnected callback
C14_Witness ==
  /\ connect_ret = "false"
  /\ err = rws_error_new_code_descr("missed_parameter",
                                     "No on_disconnected callback provided")
  /\ mem["error"] = "live"
  /\ port > 0 /\ mem["scheme"] = "live" /\ mem["host"] = "live" /\ mem["path"] = "live"
  /\ ~on_disconnected
  /\ command = "NONE" /\ pc_w = "none" /\ received_len = 0

====
